---------------------------- MODULE Spec2Model ----------------------------
(***************************************************************************)
(* A model of dlpackrs: the managed-tensor ownership protocol              *)
(* (src/src/tensor.rs), the descriptor accessors (src/src/tensor.rs) and   *)
(* the device enumeration's conversions (src/src/device.rs).               *)
(*                                                                         *)
(* Four specifications share the module:                                  *)
(*   Spec        the life of one managed record (ManagedTensor and         *)
(*               ManagedTensorProxy operations, deleter dispatch);         *)
(*   SpecTensor  the accessors of Tensor applied to bounded descriptors;   *)
(*   SpecDevice  the device conversions applied to bounded inputs;         *)
(*   SpecWire    the data-type conversions and the descriptor's round trip *)
(*               through the wire record (src/src/datatype.rs, tensor.rs). *)
(***************************************************************************)
EXTENDS Integers, Sequences, FiniteSets, TLC

VARIABLES
    \* ---- Spec: one managed record ----
    mt,         \* the live ManagedTensor (its ManagedTensorProxy), or Absent
    raw,        \* a DLManagedTensor the caller holds by value, or Absent
    rptr,       \* the last *const DLManagedTensor handed out by into_raw
    view,       \* the DLManagedTensor made by the pinned-borrow conversion
    tensor,     \* the Tensor returned by into_tensor, or Absent
    calls,      \* deleter -> number of times it has been invoked
    lastArg,    \* the record whose address the last deleter call received
    origin,     \* the raw record the live proxy was wrapped from (history)
    wraps,      \* number of wraps of a raw record so far
    panicked,   \* a debug assertion failed
    op,         \* the operation that produced this state
    io,         \* the argument given to it, or the value it returned
    \* ---- SpecTensor: a descriptor and the last accessor's result ----
    inner,      \* Tensor.inner, a DLTensor
    top,        \* the accessor last called
    tret,       \* what it returned
    \* ---- SpecDevice: the last conversion, its argument and result ----
    dop,
    darg,
    dret,
    \* ---- SpecWire: the last wire conversion, its argument and result ----
    wop,
    warg,
    wret

mvars == <<mt, raw, rptr, view, tensor, calls, lastArg, origin, wraps, panicked, op, io>>
tvars == <<inner, top, tret>>
dvars == <<dop, darg, dret>>
wvars == <<wop, warg, wret>>
vars == <<mt, raw, rptr, view, tensor, calls, lastArg, origin, wraps, panicked, op, io,
          inner, top, tret, dop, darg, dret, wop, warg, wret>>

\* The number of times a raw record may be wrapped into a handle in one run.
MaxWraps == 1

Absent == [absent |-> TRUE]

-----------------------------------------------------------------------------
(* Values *)

\* *mut c_void values a manager context may hold; "null" is the null pointer.
Handles == {"h1", "h2"}
RawCtx == Handles \cup {"null"}

\* Deleter functions, by address; "null" is the raw record's null function
\* pointer, "None" the proxy's Option::None.
Deleters == {"d1", "d2"}
RawDeleters == Deleters \cup {"null"}

\* Cells of the caller that hold a *mut c_void: a NonNull<*mut c_void> given to
\* ManagedTensor::new or set_manager_ctx points at one of them.
CallerCells == {"c1", "c2"}

CellContent(c) == IF c = "c1" THEN "h1" ELSE "h2"

\* The address of the manager_ctx field of the by-value parameter of
\* From<DLManagedTensor>::from: dead storage once that function has returned.
ParamSlot == "param"

\* A DLTensor, all seven wire fields.
DLTensorOf(data, dtype_id, ndim, bits, lanes, shape, strides, byte_offset) ==
    [data |-> data,
     device |-> [device_type |-> dtype_id, device_id |-> 0],
     ndim |-> ndim,
     dtype |-> [code |-> 2, bits |-> bits, lanes |-> lanes],
     shape |-> shape,
     strides |-> strides,
     byte_offset |-> byte_offset]

\* The two descriptors the managed record is built over.
TensorA == DLTensorOf(1, 1, 2, 32, 1, 1, 3, 0)
TensorB == DLTensorOf(1, 2, 1, 8, 1, 5, 0, 4)
ManagedDescriptors == {TensorA, TensorB}

RawRecords ==
    [dl_tensor : ManagedDescriptors, manager_ctx : RawCtx, deleter : RawDeleters]

-----------------------------------------------------------------------------
(* ManagedTensorProxy conversions *)

\* Option<extern fn> -> Option<fn>: take().map(transmute), the address kept.
DeleterFromRaw(d) == IF d = "null" THEN "None" ELSE d

\* Option<fn> -> Option<extern fn>: map(transmute).
DeleterToRaw(d) == IF d = "None" THEN "null" ELSE d

\* From<DLManagedTensor> for ManagedTensorProxy. The context pointer is the
\* address of the parameter's own manager_ctx field, not the handle.
ProxyFrom(dlmt) ==
    [dl_tensor |-> dlmt.dl_tensor,
     manager_ctx |-> IF dlmt.manager_ctx = "null" THEN "None" ELSE ParamSlot,
     deleter |-> DeleterFromRaw(dlmt.deleter)]

\* The values `*nnptr.as_ptr()` can produce. A caller's cell holds its handle;
\* the dead parameter slot holds whatever the stack holds by then.
ReadCtx(ptr) ==
    IF ptr = "None" THEN {"null"}
    ELSE IF ptr \in CallerCells THEN {CellContent(ptr)}
    ELSE RawCtx

\* From<ManagedTensorProxy> / From<Pin<&mut ManagedTensorProxy>> for
\* DLManagedTensor: the records the conversion can build from proxy p.
Materialize(p) ==
    {[dl_tensor |-> p.dl_tensor, manager_ctx |-> v, deleter |-> DeleterToRaw(p.deleter)] :
        v \in ReadCtx(p.manager_ctx)}

\* A mutant of DropProxy: the release forgets the deleter.
DropProxyForgets(p) ==
    UNCHANGED <<calls, lastArg>>

\* PinnedDrop::drop of proxy p: re-materialize, then call the deleter if one
\* is registered, with the address of the re-materialized record.
DropProxy(p) ==
    \E dlm \in Materialize(p) :
        IF p.deleter # "None"
        THEN /\ calls' = [calls EXCEPT ![p.deleter] = @ + 1]
             /\ lastArg' = dlm
        ELSE UNCHANGED <<calls, lastArg>>

-----------------------------------------------------------------------------
(* Spec: the operations on one managed record *)

InitManaged ==
    /\ mt = Absent
    /\ raw \in RawRecords \cup {Absent}
    /\ rptr = [addr |-> "null"]
    /\ view = Absent
    /\ tensor = Absent
    /\ calls = [d \in Deleters |-> 0]
    /\ lastArg = Absent
    /\ origin = Absent
    /\ wraps = 0
    /\ panicked = FALSE
    /\ op = "init"
    /\ io = "none"

IdleManaged ==
    /\ mt = Absent
    /\ raw = Absent
    /\ rptr = [addr |-> "null"]
    /\ view = Absent
    /\ tensor = Absent
    /\ calls = [d \in Deleters |-> 0]
    /\ lastArg = Absent
    /\ origin = Absent
    /\ wraps = 0
    /\ panicked = FALSE
    /\ op = "idle"
    /\ io = "none"

Live == mt # Absent

\* ManagedTensor::new(tensor, manager_ctx)
New ==
    /\ op = "init" /\ raw = Absent /\ ~panicked
    /\ \E t \in ManagedDescriptors, c \in CallerCells \cup {"None"} :
          /\ mt' = [dl_tensor |-> t, manager_ctx |-> c, deleter |-> "None"]
          /\ io' = c
    /\ op' = "new"
    /\ UNCHANGED <<raw, rptr, view, tensor, calls, lastArg, origin, wraps, panicked>>
    /\ UNCHANGED <<tvars, dvars, wvars>>

\* From<DLManagedTensor> for ManagedTensor
FromDL ==
    /\ ~Live /\ raw # Absent /\ wraps < MaxWraps /\ ~panicked
    /\ mt' = ProxyFrom(raw)
    /\ origin' = raw
    /\ raw' = Absent
    /\ wraps' = wraps + 1
    /\ op' = "from"
    /\ io' = "none"
    /\ UNCHANGED <<rptr, view, tensor, calls, lastArg, panicked>>
    /\ UNCHANGED <<tvars, dvars, wvars>>

\* ManagedTensor::from_raw(ptr): ptr is null, the address of the caller's
\* record, or the pointer into_raw returned (the address of its dead local).
from_raw ==
    /\ ~Live /\ ~panicked
    /\ \E ptr \in {"null", "raw", "ret"} :
          CASE ptr = "null" ->
                 /\ panicked' = TRUE
                 /\ op' = "from_raw_null"
                 /\ UNCHANGED <<mt, raw, rptr, origin, wraps>>
            [] ptr = "raw" ->
                 /\ raw # Absent /\ wraps < MaxWraps
                 /\ mt' = ProxyFrom(raw)
                 /\ origin' = raw
                 /\ raw' = Absent
                 /\ wraps' = wraps + 1
                 /\ op' = "from_raw"
                 /\ UNCHANGED <<rptr, panicked>>
            [] ptr = "ret" ->
                 /\ rptr.addr = "ret" /\ wraps < MaxWraps
                 /\ \E r \in RawRecords :
                       /\ mt' = ProxyFrom(r)
                       /\ origin' = r
                 /\ rptr' = [addr |-> "null"]
                 /\ wraps' = wraps + 1
                 /\ op' = "from_raw_dangling"
                 /\ UNCHANGED <<raw, panicked>>
    /\ io' = "none"
    /\ UNCHANGED <<view, tensor, calls, lastArg>>
    /\ UNCHANGED <<tvars, dvars, wvars>>

\* A mutant of set_deleter: a deleter already registered is kept.
set_deleter_keeps ==
    /\ Live /\ ~panicked
    /\ \E d \in Deleters :
          /\ mt' = [mt EXCEPT !.deleter = IF @ = "None" THEN d ELSE @]
          /\ io' = d
    /\ op' = "set_deleter"
    /\ UNCHANGED <<raw, rptr, view, tensor, calls, lastArg, origin, wraps, panicked>>
    /\ UNCHANGED <<tvars, dvars, wvars>>

\* ManagedTensor::set_deleter(deleter)
set_deleter ==
    /\ Live /\ ~panicked
    /\ \E d \in Deleters :
          /\ mt' = [mt EXCEPT !.deleter = d]
          /\ io' = d
    /\ op' = "set_deleter"
    /\ UNCHANGED <<raw, rptr, view, tensor, calls, lastArg, origin, wraps, panicked>>
    /\ UNCHANGED <<tvars, dvars, wvars>>

\* ManagedTensorProxy::set_manager_ctx(manager_ctx)
set_manager_ctx ==
    /\ Live /\ ~panicked
    /\ \E c \in CallerCells :
          /\ mt' = [mt EXCEPT !.manager_ctx = c]
          /\ io' = c
    /\ op' = "set_manager_ctx"
    /\ UNCHANGED <<raw, rptr, view, tensor, calls, lastArg, origin, wraps, panicked>>
    /\ UNCHANGED <<tvars, dvars, wvars>>

\* A mutant of manager_ctx: the handle is taken out of the proxy.
manager_ctx_takes ==
    /\ Live /\ ~panicked
    /\ io' = mt.manager_ctx
    /\ mt' = [mt EXCEPT !.manager_ctx = "None"]
    /\ op' = "manager_ctx"
    /\ UNCHANGED <<raw, rptr, view, tensor, calls, lastArg, origin, wraps, panicked>>
    /\ UNCHANGED <<tvars, dvars, wvars>>

\* ManagedTensorProxy::manager_ctx(): the stored Option<NonNull<*mut c_void>>
manager_ctx ==
    /\ Live /\ ~panicked
    /\ io' = mt.manager_ctx
    /\ op' = "manager_ctx"
    /\ UNCHANGED <<mt, raw, rptr, view, tensor, calls, lastArg, origin, wraps, panicked>>
    /\ UNCHANGED <<tvars, dvars, wvars>>

\* From<Pin<&mut ManagedTensorProxy>> for DLManagedTensor, called by a holder
\* of the pinned proxy: the proxy stays.
PinnedInto ==
    /\ Live /\ ~panicked
    /\ view' \in Materialize(mt)
    /\ op' = "pinned_into"
    /\ io' = "none"
    /\ UNCHANGED <<mt, raw, rptr, tensor, calls, lastArg, origin, wraps, panicked>>
    /\ UNCHANGED <<tvars, dvars, wvars>>

\* From<ManagedTensor> for DLManagedTensor: the consuming conversion reads the
\* proxy's fields by copy, so the proxy is whole at the end of `from` and is
\* dropped there.
IntoDL ==
    /\ Live /\ ~panicked
    /\ raw' \in Materialize(mt)
    /\ DropProxy(mt)
    /\ mt' = Absent
    /\ op' = "into_dl"
    /\ io' = "none"
    /\ UNCHANGED <<rptr, view, tensor, origin, wraps, panicked>>
    /\ UNCHANGED <<tvars, dvars, wvars>>

\* ManagedTensor::into_raw: the consuming conversion into the local `ret`,
\* whose address is returned.
into_raw ==
    /\ Live /\ ~panicked
    /\ \E ret \in Materialize(mt) : rptr' = [addr |-> "ret", wrote |-> ret]
    /\ DropProxy(mt)
    /\ mt' = Absent
    /\ op' = "into_raw"
    /\ io' = "none"
    /\ UNCHANGED <<raw, view, tensor, origin, wraps, panicked>>
    /\ UNCHANGED <<tvars, dvars, wvars>>

\* From<DLTensor> for Tensor
TensorFrom(dts) == [inner |-> dts]

\* ManagedTensor::into_tensor: dl_tensor is copied out and self is dropped at
\* the end of the function.
into_tensor ==
    /\ Live /\ ~panicked
    /\ tensor' = TensorFrom(mt.dl_tensor)
    /\ DropProxy(mt)
    /\ mt' = Absent
    /\ op' = "into_tensor"
    /\ io' = "none"
    /\ UNCHANGED <<raw, rptr, view, origin, wraps, panicked>>
    /\ UNCHANGED <<tvars, dvars, wvars>>

\* The handle goes out of scope.
Drop ==
    /\ Live /\ ~panicked
    /\ DropProxy(mt)
    /\ mt' = Absent
    /\ op' = "drop"
    /\ io' = "none"
    /\ UNCHANGED <<raw, rptr, view, tensor, origin, wraps, panicked>>
    /\ UNCHANGED <<tvars, dvars, wvars>>

Next ==
    \/ New
    \/ FromDL
    \/ from_raw
    \/ set_deleter
    \/ set_manager_ctx
    \/ manager_ctx
    \/ PinnedInto
    \/ IntoDL
    \/ into_raw
    \/ into_tensor
    \/ Drop

IdleTensor ==
    /\ inner = TensorA
    /\ top = "idle"
    /\ tret = Absent

IdleDevice ==
    /\ dop = "idle"
    /\ darg = Absent
    /\ dret = Absent

IdleWire ==
    /\ wop = "idle"
    /\ warg = Absent
    /\ wret = Absent

Init == InitManaged /\ IdleTensor /\ IdleDevice /\ IdleWire

Spec == Init /\ [][Next]_vars

-----------------------------------------------------------------------------
(* SpecTensor: the accessors of Tensor *)

\* The longest shape/strides array a descriptor names.
MaxNdim == 2

\* Option<T>
None == [some |-> FALSE]
Some(v) == [some |-> TRUE, val |-> v]

\* The i64 cells the shape and strides pointers point into; address 0 is the
\* null pointer, address a > 0 is cell Mem[a]. Cells 1..2 hold the shape
\* [2,3], cells 3..4 the strides [3,1] of a contiguous 2x3 buffer.
Mem == <<2, 3, 3, 1, 3, 0>>

ArrayPtrs == 0 .. Len(Mem)

\* An array pointer the caller may put in a descriptor of n dimensions: null,
\* or the address of n cells.
ValidArray(p, n) == p = 0 \/ p + n - 1 <= Len(Mem)

BitsSet == {4, 8, 32}
LanesSet == {1, 2}

\* Tensor::new over the bounded field values.
Descriptors ==
    {DLTensorOf(data, 1, ndim, bits, lanes, shp, str, off) :
        data \in {0, 1}, ndim \in 0 .. MaxNdim, bits \in BitsSet, lanes \in LanesSet,
        shp \in ArrayPtrs, str \in ArrayPtrs, off \in {0, 4}}

\* slice::from_raw_parts(p as *const usize, n): the n cells from p on.
from_raw_parts(p, n) == [i \in 1 .. n |-> Mem[p + i - 1]]

\* A mutant of shape: the data pointer is not looked at.
shape_ignores_data(dlt) ==
    IF dlt.shape = 0 THEN None ELSE Some(from_raw_parts(dlt.shape, dlt.ndim))

\* Tensor::shape
shape(dlt) ==
    IF dlt.shape = 0 \/ dlt.data = 0
    THEN None
    ELSE Some(from_raw_parts(dlt.shape, dlt.ndim))

\* Tensor::strides
strides(dlt) ==
    IF dlt.strides = 0 \/ dlt.data = 0
    THEN None
    ELSE Some(from_raw_parts(dlt.strides, dlt.ndim))

\* Tensor::itemsize
itemsize(dlt) == (dlt.dtype.lanes * dlt.dtype.bits) \div 8

\* Iterator::product over a slice
RECURSIVE product(_)
product(v) == IF v = <<>> THEN 1 ELSE Head(v) * product(Tail(v))

\* Tensor::size: `product * (bits * lanes + 7) / 8`, left to right.
size(dlt) ==
    LET v == shape(dlt)
    IN  IF v.some
        THEN Some((product(v.val) * (dlt.dtype.bits * dlt.dtype.lanes + 7)) \div 8)
        ELSE None

InitTensor ==
    /\ inner \in {d \in Descriptors :
                     ValidArray(d.shape, d.ndim) /\ ValidArray(d.strides, d.ndim)}
    /\ top = "new"
    /\ tret = Absent

Call_shape ==
    /\ top' = "shape"
    /\ tret' = shape(inner)
    /\ UNCHANGED <<inner, mvars, dvars, wvars>>

Call_strides ==
    /\ top' = "strides"
    /\ tret' = strides(inner)
    /\ UNCHANGED <<inner, mvars, dvars, wvars>>

Call_itemsize ==
    /\ top' = "itemsize"
    /\ tret' = Some(itemsize(inner))
    /\ UNCHANGED <<inner, mvars, dvars, wvars>>

Call_size ==
    /\ top' = "size"
    /\ tret' = size(inner)
    /\ UNCHANGED <<inner, mvars, dvars, wvars>>

NextTensor ==
    \/ Call_shape
    \/ Call_strides
    \/ Call_itemsize
    \/ Call_size

TensorInit == IdleManaged /\ InitTensor /\ IdleDevice /\ IdleWire

SpecTensor == TensorInit /\ [][NextTensor]_vars

-----------------------------------------------------------------------------
(* SpecDevice: the conversions of DeviceType and Device *)

\* The largest wire device-type number tried.
MaxWire == 18

\* The largest device id tried.
MaxDeviceId == 1

\* enum DeviceType
DeviceTypes ==
    {"CPU", "CUDA", "CUDAHost", "OpenCL", "Vulkan", "Metal", "VPI", "ROCM",
     "ROCMHost", "ExtDev", "CUDAManaged", "OneAPI", "WebGPU", "Hexagon"}

\* The discriminants of enum DeviceType (#[repr(u32)]); also
\* From<DeviceType> for ffi::DLDeviceType, `device_type as Self`.
Discriminant(k) ==
    CASE k = "CPU" -> 1
      [] k = "CUDA" -> 2
      [] k = "CUDAHost" -> 3
      [] k = "OpenCL" -> 4
      [] k = "Vulkan" -> 7
      [] k = "Metal" -> 8
      [] k = "VPI" -> 9
      [] k = "ROCM" -> 10
      [] k = "ROCMHost" -> 11
      [] k = "ExtDev" -> 12
      [] k = "CUDAManaged" -> 13
      [] k = "OneAPI" -> 14
      [] k = "WebGPU" -> 15
      [] k = "Hexagon" -> 16

\* What a conversion hands back: a device type, a device, a typed error with
\* its payload, or a panic.
OkType(k) == [tag |-> "ok", device_type |-> k]
OkDevice(k, id) == [tag |-> "ok", device_type |-> k, device_id |-> id]
UnsupportedDeviceError(s) == [tag |-> "err", error |-> "UnsupportedDeviceError", payload |-> s]
Panic(msg) == [tag |-> "panic", msg |-> msg]

\* DeviceType::n, derived by enumn::N: the variant with that discriminant.
DeviceType_n(v) ==
    IF \E k \in DeviceTypes : Discriminant(k) = v
    THEN Some(CHOOSE k \in DeviceTypes : Discriminant(k) = v)
    ELSE None

\* From<ffi::DLDeviceType> for DeviceType: n(..).expect(..)
DeviceTypeFromWire(v) ==
    LET r == DeviceType_n(v)
    IN  IF r.some
        THEN OkType(r.val)
        ELSE Panic("invalid enumeration value for ffi::DLDeviceType")

\* A mutant of DeviceTypeDisplay: ExtDev is displayed as the parser reads it.
DeviceTypeDisplayExtDev(k) ==
    CASE k = "CPU" -> "cpu"
      [] k = "CUDA" -> "cuda"
      [] k = "CUDAHost" -> "cuda_host"
      [] k = "OpenCL" -> "opencl"
      [] k = "Vulkan" -> "vulkan"
      [] k = "Metal" -> "metal"
      [] k = "VPI" -> "vpi"
      [] k = "ROCM" -> "rocm"
      [] k = "ROCMHost" -> "rocm_host"
      [] k = "ExtDev" -> "ext_dev"
      [] k = "CUDAManaged" -> "cuda_managed"
      [] k = "OneAPI" -> "one_api"
      [] k = "WebGPU" -> "web_gpu"
      [] k = "Hexagon" -> "hexagon"

\* Display for DeviceType
DeviceTypeDisplay(k) ==
    CASE k = "CPU" -> "cpu"
      [] k = "CUDA" -> "cuda"
      [] k = "CUDAHost" -> "cuda_host"
      [] k = "OpenCL" -> "opencl"
      [] k = "Vulkan" -> "vulkan"
      [] k = "Metal" -> "metal"
      [] k = "VPI" -> "vpi"
      [] k = "ROCM" -> "rocm"
      [] k = "ROCMHost" -> "rocm_host"
      [] k = "ExtDev" -> "ext_device"
      [] k = "CUDAManaged" -> "cuda_managed"
      [] k = "OneAPI" -> "one_api"
      [] k = "WebGPU" -> "web_gpu"
      [] k = "Hexagon" -> "hexagon"

\* From<&str> for DeviceType
DeviceTypeFromStr(type_str) ==
    CASE type_str = "cpu" -> OkType("CPU")
      [] type_str = "cuda" -> OkType("CUDA")
      [] type_str = "cuda_host" -> OkType("CUDAHost")
      [] type_str = "opencl" -> OkType("OpenCL")
      [] type_str = "vulkan" -> OkType("Vulkan")
      [] type_str = "metal" -> OkType("Metal")
      [] type_str = "vpi" -> OkType("VPI")
      [] type_str = "rocm" -> OkType("ROCM")
      [] type_str = "rocm_host" -> OkType("ROCMHost")
      [] type_str = "ext_dev" -> OkType("ExtDev")
      [] type_str = "cuda_managed" -> OkType("CUDAManaged")
      [] type_str = "one_api" -> OkType("OneAPI")
      [] type_str = "web_gpu" -> OkType("WebGPU")
      [] type_str = "hexagon" -> OkType("Hexagon")
      [] OTHER -> Panic("not supported!")

\* From<&str> for Device: Device::new(DeviceType::from(target), 0)
DeviceFromStr(target) ==
    LET t == DeviceTypeFromStr(target)
    IN  IF t.tag = "ok" THEN OkDevice(t.device_type, 0) ELSE t

\* FromStr for Device, as add_device! expands it: one arm per device name of
\* the macro call, then the catch-all.
Device_from_str(type_str) ==
    CASE type_str = "cpu" -> OkDevice("CPU", 0)
      [] type_str \in {"cuda", "nvptx"} -> OkDevice("CUDA", 0)
      [] type_str = "cuda_host" -> OkDevice("CUDAHost", 0)
      [] type_str = "cl" -> OkDevice("OpenCL", 0)
      [] type_str = "vulkan" -> OkDevice("Vulkan", 0)
      [] type_str = "metal" -> OkDevice("Metal", 0)
      [] type_str = "vpi" -> OkDevice("VPI", 0)
      [] type_str = "rocm" -> OkDevice("ROCM", 0)
      [] type_str = "rocm_host" -> OkDevice("ROCMHost", 0)
      [] type_str = "ext_dev" -> OkDevice("ExtDev", 0)
      [] type_str = "cuda_managed" -> OkDevice("CUDAManaged", 0)
      [] type_str = "one_api" -> OkDevice("OneAPI", 0)
      [] type_str = "web_gpu" -> OkDevice("WebGPU", 0)
      [] type_str = "hexagon" -> OkDevice("Hexagon", 0)
      [] OTHER -> UnsupportedDeviceError(type_str)

\* From<ffi::DLDevice> for Device (device ids kept within 0..MaxDeviceId,
\* where `as usize` changes nothing)
DeviceFromDLDevice(dev) ==
    LET t == DeviceTypeFromWire(dev.device_type)
    IN  IF t.tag = "ok" THEN OkDevice(t.device_type, dev.device_id) ELSE t

\* Display for Device: "{}({})"
DeviceDisplay(dev) ==
    DeviceTypeDisplay(dev.device_type) \o "(" \o ToString(dev.device_id) \o ")"

\* The strings tried on the parsers: the fourteen identifiers, the display
\* form of ExtDev, the two extra names of add_device!, and strings no parser
\* knows.
Identifiers ==
    {"cpu", "cuda", "cuda_host", "opencl", "vulkan", "metal", "vpi", "rocm",
     "rocm_host", "ext_dev", "cuda_managed", "one_api", "web_gpu", "hexagon"}
DeviceStrings == Identifiers \cup {"ext_device", "cl", "nvptx", "gpu", "CPU", "cpu(0)", ""}

WireValues == 0 .. MaxWire

InitDevice ==
    /\ dop = "start"
    /\ darg = Absent
    /\ dret = Absent

\* DeviceType::from(type_str)
DeviceType_from ==
    /\ \E s \in DeviceStrings :
          /\ darg' = s
          /\ dret' = DeviceTypeFromStr(s)
    /\ dop' = "DeviceType::from(&str)"
    /\ UNCHANGED <<mvars, tvars, wvars>>

\* Device::from(target)
Device_from ==
    /\ \E s \in DeviceStrings :
          /\ darg' = s
          /\ dret' = DeviceFromStr(s)
    /\ dop' = "Device::from(&str)"
    /\ UNCHANGED <<mvars, tvars, wvars>>

\* type_str.parse::<Device>()
Device_parse ==
    /\ \E s \in DeviceStrings :
          /\ darg' = s
          /\ dret' = Device_from_str(s)
    /\ dop' = "Device::from_str"
    /\ UNCHANGED <<mvars, tvars, wvars>>

\* DeviceType::from(wire)
DeviceType_from_wire ==
    /\ \E v \in WireValues :
          /\ darg' = v
          /\ dret' = DeviceTypeFromWire(v)
    /\ dop' = "DeviceType::from(DLDeviceType)"
    /\ UNCHANGED <<mvars, tvars, wvars>>

\* Device::from(DLDevice)
Device_from_wire ==
    /\ \E v \in WireValues, id \in 0 .. MaxDeviceId :
          /\ darg' = [device_type |-> v, device_id |-> id]
          /\ dret' = DeviceFromDLDevice(darg')
    /\ dop' = "Device::from(DLDevice)"
    /\ UNCHANGED <<mvars, tvars, wvars>>

\* DLDeviceType::from(device_type)
DeviceType_into_wire ==
    /\ \E k \in DeviceTypes :
          /\ darg' = k
          /\ dret' = Discriminant(k)
    /\ dop' = "DLDeviceType::from(DeviceType)"
    /\ UNCHANGED <<mvars, tvars, wvars>>

\* device_type.to_string()
DeviceType_to_string ==
    /\ \E k \in DeviceTypes :
          /\ darg' = k
          /\ dret' = DeviceTypeDisplay(k)
    /\ dop' = "DeviceType::to_string"
    /\ UNCHANGED <<mvars, tvars, wvars>>

\* device.to_string()
Device_to_string ==
    /\ \E k \in DeviceTypes, id \in 0 .. MaxDeviceId :
          /\ darg' = [device_type |-> k, device_id |-> id]
          /\ dret' = DeviceDisplay(darg')
    /\ dop' = "Device::to_string"
    /\ UNCHANGED <<mvars, tvars, wvars>>

\* DeviceType::from(device_type.to_string().as_str())
DeviceType_round_trip ==
    /\ \E k \in DeviceTypes :
          /\ darg' = k
          /\ dret' = DeviceTypeFromStr(DeviceTypeDisplay(k))
    /\ dop' = "DeviceType::from(to_string)"
    /\ UNCHANGED <<mvars, tvars, wvars>>

NextDevice ==
    \/ DeviceType_from
    \/ Device_from
    \/ Device_parse
    \/ DeviceType_from_wire
    \/ Device_from_wire
    \/ DeviceType_into_wire
    \/ DeviceType_to_string
    \/ Device_to_string
    \/ DeviceType_round_trip

DeviceInit == IdleManaged /\ IdleTensor /\ InitDevice /\ IdleWire

SpecDevice == DeviceInit /\ [][NextDevice]_vars

-----------------------------------------------------------------------------
(* SpecWire: the data-type conversions *)

\* The largest wire data-type code tried, besides the largest u8.
MaxCode == 7

\* enum DataTypeCode
DataTypeCodes == {"Int", "UInt", "Float", "OpaqueHandle", "Bfloat", "Complex"}

\* From<DataTypeCode> for u8, and the discriminants of enum DataTypeCode
U8FromDataTypeCode(code) ==
    CASE code = "Int" -> 0
      [] code = "UInt" -> 1
      [] code = "Float" -> 2
      [] code = "OpaqueHandle" -> 3
      [] code = "Bfloat" -> 4
      [] code = "Complex" -> 5

\* From<&DataTypeCode> for DLDataTypeCode: the kDL* constant of each kind
DLDataTypeCodeFrom(code) ==
    CASE code = "Int" -> 0
      [] code = "UInt" -> 1
      [] code = "Float" -> 2
      [] code = "OpaqueHandle" -> 3
      [] code = "Bfloat" -> 4
      [] code = "Complex" -> 5

\* What a conversion that cannot fail hands back.
Returned(v) == [tag |-> "ok", val |-> v]

UnsupportedDataTypeCode(s) ==
    [tag |-> "err", error |-> "UnsupportedDataTypeCode", payload |-> s]

\* TryFrom<DLDataTypeCode> for DataTypeCode
DataTypeCode_try_from(code) ==
    CASE code = 0 -> Returned("Int")
      [] code = 1 -> Returned("UInt")
      [] code = 2 -> Returned("Float")
      [] code = 3 -> Returned("OpaqueHandle")
      [] code = 4 -> Returned("Bfloat")
      [] code = 5 -> Returned("Complex")
      [] OTHER -> UnsupportedDataTypeCode(ToString(code))

\* DataType::new
DataType_new(code, bits, lanes) == [code |-> code, bits |-> bits, lanes |-> lanes]

\* A mutant of DLDataTypeFrom: lanes is narrowed to a byte.
DLDataTypeFromNarrowLanes(dtype) ==
    [code |-> dtype.code % 256, bits |-> dtype.bits % 256, lanes |-> dtype.lanes % 256]

\* From<DataType> for DLDataType: `code as u8`, `bits as u8`, `lanes as u16`
DLDataTypeFrom(dtype) ==
    [code |-> dtype.code % 256, bits |-> dtype.bits % 256, lanes |-> dtype.lanes % 65536]

\* From<DLDataType> for DataType: the three fields, the code as it comes
DataTypeFrom(dtype) ==
    [code |-> dtype.code, bits |-> dtype.bits, lanes |-> dtype.lanes]

\* The field values tried: u8 codes, u8 bits and u16 lanes with their ends.
WireCodes == (0 .. MaxCode) \cup {255}
WireBits == {0, 8, 32, 255}
WireLanes == {0, 1, 4, 65535}
DLDataTypes == [code : WireCodes, bits : WireBits, lanes : WireLanes]

InitWire ==
    /\ wop = "start"
    /\ warg = Absent
    /\ wret = Absent

\* DataTypeCode::try_from(code)
DataTypeCode_from_wire ==
    /\ \E code \in WireCodes :
          /\ warg' = code
          /\ wret' = DataTypeCode_try_from(code)
    /\ wop' = "DataTypeCode::try_from"
    /\ UNCHANGED <<mvars, tvars, dvars>>

\* DLDataTypeCode::from(&code)
DataTypeCode_into_wire ==
    /\ \E code \in DataTypeCodes :
          /\ warg' = code
          /\ wret' = Returned(DLDataTypeCodeFrom(code))
    /\ wop' = "DLDataTypeCode::from"
    /\ UNCHANGED <<mvars, tvars, dvars>>

\* DataTypeCode::try_from(DLDataTypeCode::from(&code))
DataTypeCode_round_trip ==
    /\ \E code \in DataTypeCodes :
          /\ warg' = code
          /\ wret' = DataTypeCode_try_from(DLDataTypeCodeFrom(code))
    /\ wop' = "DataTypeCode::try_from(DLDataTypeCode::from)"
    /\ UNCHANGED <<mvars, tvars, dvars>>

\* DataType::from(dl_dtype)
DataType_from_wire ==
    /\ \E dtype \in DLDataTypes :
          /\ warg' = dtype
          /\ wret' = Returned(DataTypeFrom(dtype))
    /\ wop' = "DataType::from(DLDataType)"
    /\ UNCHANGED <<mvars, tvars, dvars>>

\* DataType::from(DLDataType::from(DataType::new(code.into(), bits, lanes)))
DataType_round_trip ==
    /\ \E code \in DataTypeCodes, bits \in WireBits, lanes \in WireLanes :
          /\ warg' = DataType_new(U8FromDataTypeCode(code), bits, lanes)
          /\ wret' = Returned(DataTypeFrom(DLDataTypeFrom(warg')))
    /\ wop' = "DataType::from(DLDataType::from)"
    /\ UNCHANGED <<mvars, tvars, dvars>>

(* The descriptor through the wire record and back, with the integer widths *)

\* An integer of up to 64 bits is written as the five 16-bit limbs of its
\* two's complement in 80 bits, most significant first: the first limb is 0
\* for a number >= 0 and 65535 for a negative one, and equal tuples are equal
\* numbers.
Limb == 65536

SignLimbs(l) == IF l >= Limb \div 2 THEN Limb - 1 ELSE 0

\* `v as i32`: the low 32 bits, read as a signed number
as_i32(v) == <<SignLimbs(v[4]), SignLimbs(v[4]), SignLimbs(v[4]), v[4], v[5]>>

\* `v as usize`: the low 64 bits, read as an unsigned number
as_usize(v) == <<0, v[2], v[3], v[4], v[5]>>

\* `v as isize`: the low 64 bits, read as a signed number
as_isize(v) == <<SignLimbs(v[2]), v[2], v[3], v[4], v[5]>>

\* From<Device> for ffi::DLDevice: `device_type.into()`, `device_id as i32`
DLDeviceFromDevice(dev) ==
    [device_type |-> Discriminant(dev.device_type), device_id |-> as_i32(dev.device_id)]

\* From<ffi::DLDevice> for Device, with the width of `device_id as usize`
DeviceFromDLDeviceBits(dev) ==
    LET t == DeviceTypeFromWire(dev.device_type)
    IN  IF t.tag = "ok" THEN OkDevice(t.device_type, as_usize(dev.device_id)) ELSE t

\* Tensor::new
Tensor_new(data, device, ndim, dtype, shape_ptr, strides_ptr, byte_offset) ==
    [inner |-> [data |-> data,
                device |-> DLDeviceFromDevice(device),
                ndim |-> ndim,
                dtype |-> DLDataTypeFrom(dtype),
                shape |-> shape_ptr,
                strides |-> strides_ptr,
                byte_offset |-> byte_offset]]

\* From<Tensor> for DLTensor
DLTensorFromTensor(ts) == ts.inner

\* Tensor::data, device, dtype, ndim and byte_offset
Tensor_data(ts) == ts.inner.data
Tensor_device(ts) == DeviceFromDLDeviceBits(ts.inner.device)
Tensor_dtype(ts) == DataTypeFrom(ts.inner.dtype)
Tensor_ndim(ts) == as_usize(ts.inner.ndim)
Tensor_byte_offset(ts) == as_isize(ts.inner.byte_offset)

\* The device ids tried (usize): 0, 1, 2^31 - 1, 2^31, 2^32 and 2^64 - 1.
DeviceIds ==
    {<<0, 0, 0, 0, 0>>, <<0, 0, 0, 0, 1>>, <<0, 0, 0, 32767, 65535>>,
     <<0, 0, 0, 32768, 0>>, <<0, 0, 1, 0, 0>>, <<0, 65535, 65535, 65535, 65535>>}

\* The numbers of dimensions tried (i32, never negative): 2 and 2^31 - 1.
Ndims == {<<0, 0, 0, 0, 2>>, <<0, 0, 0, 32767, 65535>>}

\* The byte offsets tried (u64, within an address space): 0, 4 and 2^63 - 1.
ByteOffsets ==
    {<<0, 0, 0, 0, 0>>, <<0, 0, 0, 0, 4>>, <<0, 32767, 65535, 65535, 65535>>}

\* Tensor::from(DLTensor::from(Tensor::new(..))), then the five accessors
Tensor_round_trip ==
    /\ \E k \in DeviceTypes, id \in DeviceIds, ndim \in Ndims, off \in ByteOffsets :
          LET data == 1
              shp == 1
              device == [device_type |-> k, device_id |-> id]
              dtype == DataType_new(2, 32, 1)
              built == Tensor_new(data, device, ndim, dtype, shp, 0, off)
              wire == DLTensorFromTensor(built)
              back == TensorFrom(wire)
          IN  /\ warg' = [data |-> data, device |-> device, ndim |-> ndim,
                          dtype |-> dtype, shape |-> shp, strides |-> 0,
                          byte_offset |-> off]
              /\ wret' = [built |-> built.inner,
                          wire |-> wire,
                          inner |-> back.inner,
                          data |-> Tensor_data(back),
                          device |-> Tensor_device(back),
                          dtype |-> Tensor_dtype(back),
                          ndim |-> Tensor_ndim(back),
                          byte_offset |-> Tensor_byte_offset(back)]
    /\ wop' = "Tensor::from(DLTensor::from(Tensor::new))"
    /\ UNCHANGED <<mvars, tvars, dvars>>

NextWire ==
    \/ Tensor_round_trip
    \/ DataType_from_wire
    \/ DataType_round_trip
    \/ DataTypeCode_from_wire
    \/ DataTypeCode_into_wire
    \/ DataTypeCode_round_trip

WireInit == IdleManaged /\ IdleTensor /\ IdleDevice /\ InitWire

SpecWire == WireInit /\ [][NextWire]_vars

-----------------------------------------------------------------------------
(* Properties of the managed record, checked under Spec *)

\* The calls a release of proxy p adds to the count of deleter d.
ExpectedCalls(p, d) == IF p.deleter = d THEN 1 ELSE 0

\* C1: dropping a handle that has a deleter registered invokes that deleter
\* exactly once within the drop, and invokes no other; dropping a handle with
\* no deleter invokes nothing; and the drop does not panic.
C1_DropInvokesDeleterOnce ==
    [][op' = "drop" =>
          /\ \A d \in Deleters : calls'[d] = calls[d] + ExpectedCalls(mt, d)
          /\ ~panicked']_vars

\* C1's case: a handle built by new, given deleter d1, has been dropped, and
\* d1 has run once with the record of that handle.
C1_Witness ==
    /\ op = "drop"
    /\ wraps = 0
    /\ calls["d1"] = 1
    /\ calls["d2"] = 0
    /\ lastArg # Absent
    /\ ~panicked

\* C2: whatever the sequence of operations on one managed record, no deleter
\* is invoked more than once.
C2_DeleterAtMostOnce ==
    \A d \in Deleters : calls[d] <= 1

\* A pointer a caller may read through: the address of a record that is still
\* in scope. The pointer into_raw returns is the address of its local `ret`.
ValidPtr(p) == p.addr = "raw"

\* C3: into_raw invokes no deleter, and returns a pointer to a record that
\* is still valid and holds the handle's descriptor, context and deleter.
C3_IntoRawHandsOver ==
    [][op' = "into_raw" =>
          /\ calls' = calls
          /\ ValidPtr(rptr')
          /\ rptr'.wrote \in Materialize(mt)]_vars

\* C4: into_tensor returns the handle's descriptor and invokes no deleter.
C4_IntoTensorDiscardsDeleter ==
    [][op' = "into_tensor" =>
          /\ tensor'.inner = mt.dl_tensor
          /\ calls' = calls]_vars

\* C7: wrapping a raw record invokes no deleter, and the record
\* re-materialized from the wrapping proxy (by the pinned-borrow or the
\* consuming conversion) equals the raw record that was wrapped.
C7_WrapThenMaterializeIsIdentity ==
    [][/\ op' \in {"from", "from_raw"} => calls' = calls /\ lastArg' = lastArg
       /\ op \in {"from", "from_raw"} /\ op' = "pinned_into" => view' = origin
       /\ op \in {"from", "from_raw"} /\ op' = "into_dl" => raw' = origin]_vars

\* C14: set_deleter(d) registers d in place of any previous deleter, invokes
\* no deleter and leaves the descriptor and the manager context unchanged; no
\* other operation changes the registered deleter of a live handle; and an
\* operation that invokes a deleter invokes the one registered last, once,
\* and no replaced one.
C14_SetDeleterReplaces ==
    [][/\ op' = "set_deleter" =>
             /\ mt'.deleter = io'
             /\ mt'.dl_tensor = mt.dl_tensor
             /\ mt'.manager_ctx = mt.manager_ctx
             /\ calls' = calls
             /\ lastArg' = lastArg
       /\ Live /\ mt' # Absent /\ op' # "set_deleter" => mt'.deleter = mt.deleter
       /\ \A d \in Deleters :
             calls'[d] # calls[d] =>
                 /\ Live
                 /\ mt.deleter = d
                 /\ calls'[d] = calls[d] + 1
       /\ op' = "drop" =>
             \A d \in Deleters : calls'[d] = calls[d] + ExpectedCalls(mt, d)]_vars

\* C14's case: a handle wrapped from a raw record whose deleter was d1 has been
\* given d2 by set_deleter and dropped: d2 has run once on a record naming d2,
\* and d1 never.
C14_Witness ==
    /\ op = "drop"
    /\ wraps = 1
    /\ origin.deleter = "d1"
    /\ calls["d1"] = 0
    /\ calls["d2"] = 1
    /\ lastArg.deleter = "d2"

\* The *mut c_void the proxy p is meant to hold: null when it holds none, the
\* content of the caller's cell it points at, and the handle of the raw record
\* o when it was wrapped from one.
StoredHandle(p, o) ==
    IF p.manager_ctx = "None" THEN "null"
    ELSE IF p.manager_ctx \in CallerCells THEN CellContent(p.manager_ctx)
    ELSE o.manager_ctx

\* C15: when dropping a handle invokes the deleter, the record it receives
\* holds the proxy's dl_tensor, the registered deleter and the stored context
\* handle (null when none is stored, the original record's handle when the
\* proxy was wrapped from one).
C15_DeleterSeesCurrentFields ==
    [][op' = "drop" /\ mt.deleter # "None" =>
          /\ lastArg'.dl_tensor = mt.dl_tensor
          /\ lastArg'.deleter = mt.deleter
          /\ lastArg'.manager_ctx = StoredHandle(mt, origin)]_vars

\* C16: set_manager_ctx(h) stores h in place of the previous handle, whatever
\* that was, invokes no deleter and leaves dl_tensor and deleter unchanged; new
\* stores the handle it is given, a wrap of a record without context stores
\* none, and no other operation changes the stored handle of a live proxy;
\* manager_ctx() returns the stored handle and changes nothing.
C16_ContextAccessors ==
    [][/\ op' = "set_manager_ctx" =>
             /\ mt' = [mt EXCEPT !.manager_ctx = io']
             /\ io' \in CallerCells
             /\ calls' = calls
             /\ lastArg' = lastArg
       /\ op' = "new" => mt'.manager_ctx = io'
       /\ op' \in {"from", "from_raw"} /\ origin'.manager_ctx = "null" =>
             mt'.manager_ctx = "None"
       /\ Live /\ mt' # Absent /\ op' # "set_manager_ctx" =>
             mt'.manager_ctx = mt.manager_ctx
       /\ op' = "manager_ctx" =>
             /\ io' = mt.manager_ctx
             /\ UNCHANGED <<mt, raw, rptr, view, tensor, calls, lastArg, origin,
                            wraps, panicked>>]_vars

\* C16's case: a proxy wrapped from a record without context has been given
\* the handle c1 by set_manager_ctx, and manager_ctx() has returned c1.
C16_Witness ==
    /\ op = "manager_ctx"
    /\ wraps = 1
    /\ origin.manager_ctx = "null"
    /\ io = "c1"
    /\ mt.manager_ctx = "c1"

-----------------------------------------------------------------------------
(* Properties of the descriptor accessors, checked under SpecTensor *)

\* The bytes of one element, rounded up to whole bytes.
WholeBytes(dtype) == (dtype.bits * dtype.lanes + 7) \div 8

\* C5: size() is absent when the shape is absent, and otherwise is the
\* product of the ndim extents times the element size rounded up to whole
\* bytes, the rounding division applied to the element size first.
C5_SizeIsExtentsTimesWholeBytes ==
    top = "size" =>
        IF inner.shape = 0 \/ inner.data = 0
        THEN tret = None
        ELSE tret = Some(product(from_raw_parts(inner.shape, inner.ndim))
                            * WholeBytes(inner.dtype))

\* C6: shape() is absent exactly when the shape pointer or the data pointer
\* is null, strides() exactly when the strides pointer or the data pointer is
\* null; otherwise each is a view of exactly ndim entries, the cells its
\* pointer points at.
C6_ShapeStridesViews ==
    /\ top = "shape" =>
          /\ ~tret.some <=> (inner.shape = 0 \/ inner.data = 0)
          /\ tret.some =>
                /\ Len(tret.val) = inner.ndim
                /\ \A i \in 1 .. inner.ndim : tret.val[i] = Mem[inner.shape + i - 1]
    /\ top = "strides" =>
          /\ ~tret.some <=> (inner.strides = 0 \/ inner.data = 0)
          /\ tret.some =>
                /\ Len(tret.val) = inner.ndim
                /\ \A i \in 1 .. inner.ndim : tret.val[i] = Mem[inner.strides + i - 1]

\* C6's case: shape() on the 2x3 contiguous buffer (shape at cell 1, strides
\* at cell 3) has returned the view [2,3].
C6_Witness ==
    /\ top = "shape"
    /\ inner.data # 0 /\ inner.ndim = 2 /\ inner.shape = 1 /\ inner.strides = 3
    /\ tret = Some(<<2, 3>>)
    /\ strides(inner) = Some(<<3, 1>>)

-----------------------------------------------------------------------------
(* Properties of the device conversions, checked under SpecDevice *)

\* C8: parsing the display string of a device type gives the type back for
\* every type but ExtDev, which displays as "ext_device" while the parser
\* reads "ext_dev"; thirteen types round-trip.
C8_DisplayParseRoundTrip ==
    /\ dop = "DeviceType::from(to_string)" =>
          (dret = OkType(darg) <=> darg # "ExtDev")
    /\ dop = "DeviceType::to_string" /\ darg = "ExtDev" => dret = "ext_device"
    /\ dop = "DeviceType::from(&str)" /\ darg = "ext_dev" => dret = OkType("ExtDev")
    /\ dop = "DeviceType::from(&str)" /\ darg = "ext_device" => dret.tag # "ok"

\* C8's case: the display string of ExtDev has been parsed and was refused.
C8_Witness ==
    /\ dop = "DeviceType::from(to_string)"
    /\ darg = "ExtDev"
    /\ dret.tag = "panic"

\* The device type each of the fourteen identifiers stands for.
KindOfIdentifier(s) ==
    CASE s = "cpu" -> "CPU"
      [] s = "cuda" -> "CUDA"
      [] s = "cuda_host" -> "CUDAHost"
      [] s = "opencl" -> "OpenCL"
      [] s = "vulkan" -> "Vulkan"
      [] s = "metal" -> "Metal"
      [] s = "vpi" -> "VPI"
      [] s = "rocm" -> "ROCM"
      [] s = "rocm_host" -> "ROCMHost"
      [] s = "ext_dev" -> "ExtDev"
      [] s = "cuda_managed" -> "CUDAManaged"
      [] s = "one_api" -> "OneAPI"
      [] s = "web_gpu" -> "WebGPU"
      [] s = "hexagon" -> "Hexagon"

StringParsers == {"DeviceType::from(&str)", "Device::from(&str)", "Device::from_str"}

\* C9: every string parser accepts each of the fourteen identifiers and maps
\* it to the device type it stands for (with device id 0 for a Device).
C9_EveryParserAcceptsIdentifiers ==
    dop \in StringParsers /\ darg \in Identifiers =>
        /\ dret.tag = "ok"
        /\ dret.device_type = KindOfIdentifier(darg)
        /\ dop # "DeviceType::from(&str)" => dret.device_id = 0

\* C10: an unrecognised device string and a wire device-type number outside
\* the enumerated set are each reported as an UnsupportedDeviceError that
\* carries the string or number; no conversion panics on them or yields a
\* device type.
C10_UnknownDeviceIsTypedError ==
    /\ dop \in StringParsers /\ darg \notin Identifiers \cup {"cl", "nvptx"} =>
          dret = UnsupportedDeviceError(darg)
    /\ dop = "DeviceType::from(DLDeviceType)"
          /\ darg \notin {Discriminant(k) : k \in DeviceTypes} =>
          /\ dret.tag = "err"
          /\ dret.payload = darg

-----------------------------------------------------------------------------
(* Properties of the wire conversions, checked under SpecWire *)

ValidWireCodes == {U8FromDataTypeCode(k) : k \in DataTypeCodes}

\* C11: a wire data-type code outside the six enumerated codes yields an
\* UnsupportedDataTypeCode error carrying the value, through
\* DataTypeCode::try_from and when a DLDataType carrying it is converted to
\* DataType; each of the six kinds converts to its wire code and back.
C11_UnknownCodeIsTypedError ==
    /\ wop = "DataTypeCode::try_from" /\ warg \notin ValidWireCodes =>
          wret = UnsupportedDataTypeCode(ToString(warg))
    /\ wop = "DataType::from(DLDataType)" /\ warg.code \notin ValidWireCodes =>
          wret = UnsupportedDataTypeCode(ToString(warg.code))
    /\ wop = "DLDataTypeCode::from" => wret = Returned(U8FromDataTypeCode(warg))
    /\ wop = "DataTypeCode::try_from(DLDataTypeCode::from)" => wret = Returned(warg)

\* C12: a DataType built from one of the six codes with any bits and lanes
\* comes back equal in code, bits and lanes from the wire DLDataType.
C12_DataTypeRoundTrip ==
    wop = "DataType::from(DLDataType::from)" =>
        /\ wret.tag = "ok"
        /\ wret.val.code = warg.code
        /\ wret.val.bits = warg.bits
        /\ wret.val.lanes = warg.lanes

\* C12's case: a complex type of 255 bits and 65535 lanes has made the trip.
C12_Witness ==
    /\ wop = "DataType::from(DLDataType::from)"
    /\ warg = [code |-> 5, bits |-> 255, lanes |-> 65535]
    /\ wret = Returned(warg)

\* C13: a descriptor built by Tensor::new, converted to the wire DLTensor and
\* back, has every wire field unchanged and reports through data(), device(),
\* dtype(), ndim() and byte_offset() the values it was constructed with, for
\* every device kind and device id.
C13_TensorRoundTrip ==
    wop = "Tensor::from(DLTensor::from(Tensor::new))" =>
        /\ wret.wire = wret.built
        /\ wret.inner = wret.built
        /\ wret.data = warg.data
        /\ wret.device = OkDevice(warg.device.device_type, warg.device.device_id)
        /\ wret.dtype = warg.dtype
        /\ wret.ndim = warg.ndim
        /\ wret.byte_offset = warg.byte_offset

=============================================================================
